---- MODULE Spec2Model ----
(***************************************************************************)
(* Rotation and retention state machine of csv_logger (src/src/lib.rs,    *)
(* src/src/table.rs).                                                      *)
(*                                                                         *)
(* The output directory is modelled as the set of log files of each table  *)
(* (epoch number -> rows on disk) plus the epoch marker file of each table *)
(* (its text).  The process memory is CsvLogger.tables.  A handler is a    *)
(* pure function from a world [fs, mk, tb] to the sequence of worlds it    *)
(* passes through, one per file-system step; an action of the model takes  *)
(* the whole sequence (a completed call) or a prefix of it followed by the *)
(* loss of the process memory (a process that stops inside the call).      *)
(*                                                                         *)
(* The threads of one process (the callers of init, the flush worker each  *)
(* successful init spawns, a logging thread) and the lock of GLOBAL_LOG    *)
(* are the variable proc; in the specification of the threads a log call   *)
(* advances one file-system step at a time while it holds the lock.        *)
(***************************************************************************)
EXTENDS Integers, Sequences, FiniteSets, TLC

VARIABLES files, marker, tables, rotation, hist, ops, last, proc

vars == <<files, marker, tables, rotation, hist, ops, last, proc>>

(* ------------------------------ bounds -------------------------------- *)

\* largest max_records drawn at construction
MaxK == 3
\* largest max_epochs drawn at construction
MaxM == 3
\* number of log calls in one behaviour of one process
MaxOps == 8
\* number of log calls, restarts and interrupted log calls in one behaviour
\* with restarts
MaxCrashOps == 4
\* largest max_records and max_epochs drawn in behaviours with restarts
MaxCrashK == 2
MaxCrashM == 2
\* number of log calls in one behaviour of the threads
MaxThreadOps == 3
\* largest max_records drawn in behaviours of the threads
MaxThreadK == 2
\* longest marker text in the marker round-trip specification
MaxText == 2
\* largest epoch persisted in the marker round-trip specification
MaxPersist == 12

TableNames == {"t1", "t2"}
\* the characters a marker file may hold in the round-trip specification
Chars == {"0", "1", "7", "+", "-", " ", "x"}
\* the header row csv::Writer emits before the first record of a writer
Header == [header |-> TRUE, n |-> 0]
\* the row of a record; records are told apart by the number n they carry,
\* as the records of the tests are
Row(r) == [header |-> FALSE, n |-> r]

(* --------------------------- Option<usize> ---------------------------- *)

None == [some |-> FALSE, val |-> 0]
Some(v) == [some |-> TRUE, val |-> v]

(* ------------------------ decimal text of usize ----------------------- *)

Digits == <<"0", "1", "2", "3", "4", "5", "6", "7", "8", "9">>
IsDigit(c) == \E i \in 1..10 : Digits[i] = c
DigitVal(c) == (CHOOSE i \in 1..10 : Digits[i] = c) - 1

RECURSIVE to_string(_)
\* usize::to_string: the decimal digits, most significant first, no sign
to_string(n) ==
  IF n < 10 THEN <<Digits[n + 1]>>
  ELSE to_string(n \div 10) \o <<Digits[(n % 10) + 1]>>

RECURSIVE digits_value(_)
digits_value(s) ==
  IF Len(s) = 0 THEN 0
  ELSE 10 * digits_value(SubSeq(s, 1, Len(s) - 1)) + DigitVal(s[Len(s)])

\* str::parse::<usize>: an optional leading '+', then one or more decimal
\* digits and nothing else; anything else (empty text included) is Err
parse(s) ==
  LET body == IF Len(s) > 0 /\ s[1] = "+" THEN Tail(s) ELSE s
  IN IF Len(body) > 0 /\ \A i \in 1..Len(body) : IsDigit(body[i])
     THEN Some(digits_value(body))
     ELSE None

(* ------------------------------ files --------------------------------- *)

Absent == [exists |-> FALSE, text |-> <<>>]
Text(s) == [exists |-> TRUE, text |-> s]

\* the partial function f without the key e
Without(f, e) == [x \in (DOMAIN f) \ {e} |-> f[x]]
\* the partial function f with f[e] = v
With(f, e, v) == [x \in (DOMAIN f) \cup {e} |-> IF x = e THEN v ELSE f[x]]

\* std::fs::remove_file on a log file guarded by path.exists(): the path
\* goes away; a writer of this process that still holds the file open keeps
\* writing to the unlinked file, which no path reaches any more
remove_log_file(w, t, e) ==
  IF e \notin DOMAIN w.fs[t] THEN w
  ELSE [w EXCEPT !.fs[t] = Without(w.fs[t], e),
                 !.tb = [n \in DOMAIN w.tb |->
                           IF n = t /\ w.tb[n].writer.path = e
                           THEN [w.tb[n] EXCEPT !.writer.linked = FALSE]
                           ELSE w.tb[n]]]

\* csv::Writer::from_writer(file): nothing buffered, header not yet emitted
new_writer(e) == [path |-> e, buf |-> <<>>, header_written |-> FALSE, linked |-> TRUE]

\* create_clean_log_writer: remove the file when it exists, then create it
\* empty; the worlds after each of the two file-system steps
create_clean_log_writer(w, t, e) ==
  LET w1 == remove_log_file(w, t, e)
      w2 == [w1 EXCEPT !.fs[t] = With(w1.fs[t], e, <<>>)]
  IN <<w1, w2>>

\* a write_epoch that creates the marker file and never writes the number
write_epoch_no_write(w, t, epoch) ==
  LET w1 == [w EXCEPT !.mk[t] = Absent]
      w2 == [w1 EXCEPT !.mk[t] = Text(<<>>)]
  IN <<w1, w2, w2>>

\* write_epoch: remove the marker when it exists, create it empty, write
\* the decimal text; the worlds after each of the three file-system steps
write_epoch(w, t, epoch) ==
  LET w1 == [w EXCEPT !.mk[t] = Absent]
      w2 == [w1 EXCEPT !.mk[t] = Text(<<>>)]
      w3 == [w2 EXCEPT !.mk[t] = Text(to_string(epoch))]
  IN <<w1, w2, w3>>

\* cur_epoch: None when the marker is absent; None and the marker removed
\* when its text does not parse; Some(number) otherwise
cur_epoch(w, t) ==
  IF ~w.mk[t].exists THEN [ret |-> None, w |-> w]
  ELSE LET p == parse(w.mk[t].text)
       IN IF p.some THEN [ret |-> p, w |-> w]
          ELSE [ret |-> None, w |-> [w EXCEPT !.mk[t] = Absent]]

\* a delete_old_log_file that deletes nothing
delete_old_log_file_noop(w, t, epoch, max_epochs) == <<w>>

\* a delete_old_log_file that prunes one epoch too late
delete_old_log_file_late(w, t, epoch, max_epochs) ==
  IF epoch >= max_epochs + 1
  THEN <<[w EXCEPT !.fs[t] = [x \in (DOMAIN w.fs[t]) \ {epoch - max_epochs - 1} |-> w.fs[t][x]]]>>
  ELSE <<w>>

\* a delete_old_log_file whose path leaves the table name out: it removes
\* the file of that epoch in the directory of every table
delete_old_log_file_any_table(w, t, epoch, max_epochs) ==
  IF epoch >= max_epochs
  THEN <<[w EXCEPT !.fs = [n \in DOMAIN w.fs |->
                             [x \in (DOMAIN w.fs[n]) \ {epoch - max_epochs} |-> w.fs[n][x]]]]>>
  ELSE <<w>>

\* delete_old_log_file: epoch.checked_sub(max_epochs), and the file of that
\* epoch removed when it exists
delete_old_log_file(w, t, epoch, max_epochs) ==
  IF epoch >= max_epochs
  THEN <<remove_log_file(w, t, epoch - max_epochs)>>
  ELSE <<w>>

(* ------------------------------ Table --------------------------------- *)

\* Table::new
Table_new(writer, epoch) == [records_written |-> 0, epoch |-> epoch, writer |-> writer]

\* csv::Writer::flush, also run when a csv::Writer is dropped: the buffered
\* rows go to the file the writer holds, which is the file at its path only
\* while that path has not been removed
writer_flush(w, t, writer) ==
  IF writer.linked /\ writer.path \in DOMAIN w.fs[t]
  THEN [w EXCEPT !.fs[t][writer.path] = @ \o writer.buf]
  ELSE w

\* a replace that forgets to reset records_written
replace_keep_count(w, t, writer) ==
  LET w1 == writer_flush(w, t, w.tb[t].writer)
  IN [w1 EXCEPT !.tb[t] = [records_written |-> w.tb[t].records_written,
                           epoch |-> w.tb[t].epoch + 1,
                           writer |-> writer]]

\* a replace whose old writer is discarded with its buffered rows
replace_no_drop_flush(w, t, writer) ==
  [w EXCEPT !.tb[t] = [records_written |-> 0,
                       epoch |-> w.tb[t].epoch + 1,
                       writer |-> writer]]

\* Table::replace: the assignment drops the old writer, which flushes it;
\* epoch += 1; records_written = 0
replace(w, t, writer) ==
  LET w1 == writer_flush(w, t, w.tb[t].writer)
  IN [w1 EXCEPT !.tb[t] = [records_written |-> 0,
                           epoch |-> w.tb[t].epoch + 1,
                           writer |-> writer]]

\* a serialize whose writer emits the header before every record
serialize_header_every_row(w, t, r) ==
  [w EXCEPT !.tb[t].writer.buf = @ \o <<Header, Row(r)>>,
            !.tb[t].writer.header_written = TRUE,
            !.tb[t].records_written = @ + 1]

\* Table::serialize: the row goes to the writer's buffer, after the header
\* row when it is the writer's first record; records_written += 1
serialize(w, t, r) ==
  LET wr == w.tb[t].writer
      rows == IF wr.header_written THEN <<Row(r)>> ELSE <<Header, Row(r)>>
  IN [w EXCEPT !.tb[t].writer.buf = @ \o rows,
               !.tb[t].writer.header_written = TRUE,
               !.tb[t].records_written = @ + 1]

\* a Table::flush whose writer keeps what it has written in its buffer
Table_flush_keep_buf(w, t) == writer_flush(w, t, w.tb[t].writer)

\* Table::flush
Table_flush(w, t) ==
  LET w1 == writer_flush(w, t, w.tb[t].writer)
  IN [w1 EXCEPT !.tb[t].writer.buf = <<>>]

(* ----------------------------- CsvLogger ------------------------------ *)

\* a starting epoch that reuses the recovered number
start_epoch_reuse(opt) == IF opt.some THEN opt.val ELSE 0

\* cur_epoch(..).map(|e| e + 1).unwrap_or_default()
start_epoch(opt) == IF opt.some THEN opt.val + 1 ELSE 0

\* a rotation test that lets the table hold max_records rows
rotation_due_strict(records_written, max_records) == max_records < records_written

\* self.rotation.max_records.get() <= table.records_written()
rotation_due(records_written, max_records) == max_records <= records_written

\* the only element of a singleton set; {f(x) : x \in {e}} names the value of
\* e once, as x, for the expression f that uses it several times
Only(S) == CHOOSE x \in S : TRUE

\* the Vacant arm of log and the `if new` block: recover the epoch, create
\* the log file, insert the table, write the marker, prune; the worlds after
\* each step
log_create(w, t) ==
  Only({ Only({ Only({ Only({
      <<c.w>> \o ccw \o <<ins>> \o we
        \o delete_old_log_file(we[3], t, ins.tb[t].epoch, rotation.max_epochs)
    : we \in {write_epoch(ins, t, ins.tb[t].epoch)} })
    : ins \in {[ccw[2] EXCEPT !.tb =
                  With(ccw[2].tb, t,
                       Table_new(new_writer(start_epoch(c.ret)), start_epoch(c.ret)))]} })
    : ccw \in {create_clean_log_writer(c.w, t, start_epoch(c.ret))} })
    : c \in {cur_epoch(w, t)} })

\* the `Rotate log file` block of log: when the test holds, create the next
\* log file, replace the writer, write the marker, prune; the worlds after
\* each step
log_rotate(w, t) ==
  IF rotation_due(w.tb[t].records_written, rotation.max_records)
  THEN Only({ Only({ Only({
           ccw \o <<rep>> \o we
             \o delete_old_log_file(we[3], t, rep.tb[t].epoch, rotation.max_epochs)
         : we \in {write_epoch(rep, t, rep.tb[t].epoch)} })
         : rep \in {replace(ccw[2], t, new_writer(w.tb[t].epoch + 1))} })
         : ccw \in {create_clean_log_writer(w, t, w.tb[t].epoch + 1)} })
  ELSE <<>>

\* CsvLogger::log: the worlds the call passes through, in three parts: the
\* creation of the table (empty when the table is in the map), the append,
\* the rotation (empty when the test fails)
log(w, t, r) ==
  Only({ Only({
      [create |-> cr, append |-> <<w2>>, rotate |-> log_rotate(w2, t)]
    : w2 \in {serialize(IF cr = <<>> THEN w ELSE cr[Len(cr)], t, r)} })
    : cr \in {IF t \in DOMAIN w.tb THEN <<>> ELSE log_create(w, t)} })

\* the worlds of a log call in order
log_trace(w, t, r) ==
  Only({l.create \o l.append \o l.rotate : l \in {log(w, t, r)}})

RECURSIVE flush_all(_, _)
\* the for_each of CsvLogger::flush over the tables ts of the map
flush_all(w, ts) ==
  IF ts = {} THEN w
  ELSE LET t == CHOOSE x \in ts : TRUE
       IN Only({flush_all(w1, ts \ {t}) : w1 \in {Table_flush(w, t)}})

\* CsvLogger::flush: Table::flush on every table of the map
flush(w) == flush_all(w, DOMAIN w.tb)

\* the orders in which iter_mut may visit the tables ts of the HashMap
Orders(ts) ==
  {o \in [1..Cardinality(ts) -> ts] : \A i, j \in DOMAIN o : i # j => o[i] # o[j]}

RECURSIVE flush_order(_, _, _, _)
\* CsvLogger::flush when Table::flush returns Err for the tables in failing:
\* the tables are visited in the order given, t.flush().expect(..) panics
\* at the first failing one and the for_each ends there; the world, the
\* tables whose flush was attempted, and whether the call panicked
flush_order(w, order, failing, attempted) ==
  IF order = <<>> THEN [w |-> w, attempted |-> attempted, panicked |-> FALSE]
  ELSE IF Head(order) \in failing
       THEN [w |-> w, attempted |-> attempted \cup {Head(order)}, panicked |-> TRUE]
       ELSE Only({flush_order(w1, Tail(order), failing, attempted \cup {Head(order)})
                  : w1 \in {Table_flush(w, Head(order))}})

(* ------------------------- init and the threads ------------------------ *)

\* the threads that call init
Callers == {"i1", "i2"}

\* the process before any init: the mutex of GLOBAL_LOG free and not
\* poisoned, no logger registered, no flush worker, the logging thread idle
\*   lock      the thread that holds the mutex, or "free"
\*   poisoned  a thread panicked while it held the mutex
\*   logger    the caller whose CsvLogger is registered, or "none"
\*   init      where each caller of init is
\*   worker    where the flush worker spawned by each caller is
\*   app       where the logging thread is; pending: the worlds its log
\*             call still has to pass through
\*   flushed   what the last CsvLogger::flush found, and what it attempted
NoProc ==
  [lock |-> "free", poisoned |-> FALSE, logger |-> "none",
   init |-> [i \in Callers |-> "start"],
   worker |-> [i \in Callers |-> "none"],
   app |-> "idle", pending |-> <<>>,
   flushed |-> [done |-> FALSE, present |-> {}, failing |-> {}, attempted |-> {}]]

\* log.has_logger()
has_logger(p) == p.logger # "none"

\* an init that registers whatever is registered already
init_rejects_never(p) == FALSE

\* if log.has_logger() { panic!(..) }
init_rejects(p) == has_logger(p)

\* a lock that is handed out while another thread holds it
lock_available_always(p) == TRUE

\* Mutex::lock returns once no other thread holds the mutex
lock_available(p) == p.lock = "free"

(* ------------------------------ actions ------------------------------- *)

World == [fs |-> files, mk |-> marker, tb |-> tables]

\* what the last operation was (op) and what the last log call did: its
\* table, whether it created the table, whether it rotated, what cur_epoch
\* returned to it, the epoch its record was appended to, the marker before
\* it, and the number of rows still buffered in the writer it replaced
NoLast == [op |-> "new", table |-> "", created |-> FALSE, rotated |-> FALSE,
           recovered |-> None, start |-> 0, pre |-> Absent, dropped |-> 0]

EmptyMap == [x \in {} |-> 0]

\* CsvLogger::new over an empty output directory
Init ==
  /\ files = [t \in TableNames |-> EmptyMap]
  /\ marker = [t \in TableNames |-> Absent]
  /\ tables = EmptyMap
  /\ \E k \in 1..MaxK, m \in 0..MaxM : rotation = [max_records |-> k, max_epochs |-> m]
  /\ hist = [t \in TableNames |-> EmptyMap]
  /\ ops = 0
  /\ last = NoLast
  /\ proc = NoProc

\* a completed call of CsvLogger::log
Log(t, r) ==
  /\ \E l \in {log(World, t, r)} :
       \E w \in {IF l.rotate = <<>> THEN l.append[1] ELSE l.rotate[Len(l.rotate)]} :
         /\ files' = w.fs
         /\ marker' = w.mk
         /\ tables' = w.tb
         /\ hist' = [hist EXCEPT ![t] =
                       With(@, l.append[1].tb[t].epoch,
                            (IF l.append[1].tb[t].epoch \in DOMAIN @
                             THEN @[l.append[1].tb[t].epoch] ELSE <<>>) \o <<r>>)]
         /\ last' = [op |-> "log", table |-> t,
                     created |-> l.create # <<>>,
                     rotated |-> l.rotate # <<>>,
                     recovered |-> cur_epoch(World, t).ret,
                     start |-> l.append[1].tb[t].epoch,
                     pre |-> marker[t],
                     dropped |-> IF l.rotate # <<>>
                                 THEN Len(l.append[1].tb[t].writer.buf)
                                 ELSE 0]
  /\ ops' = ops + 1
  /\ UNCHANGED <<rotation, proc>>

\* a completed call of CsvLogger::flush (by the caller or the flush worker)
Flush ==
  /\ \E w \in {flush(World)} :
       /\ files' = w.fs
       /\ marker' = w.mk
       /\ tables' = w.tb
  /\ last' = [last EXCEPT !.op = "flush"]
  /\ UNCHANGED <<rotation, hist, ops, proc>>

\* the record a log call carries: the number of the call
NextRecord == ops + 1

Next ==
  \/ \E t \in TableNames : ops < MaxOps /\ Log(t, NextRecord)
  \/ Flush

Spec == Init /\ [][Next]_vars


\* the process ends between two calls and a new one constructs its logger
\* over the same output directory: GLOBAL_LOG is a static, nothing drops the
\* writers, and what they still buffer never reaches the files
Restart ==
  /\ ops < MaxCrashOps
  /\ tables' = EmptyMap
  /\ hist' = [t \in TableNames |-> EmptyMap]
  /\ last' = [NoLast EXCEPT !.op = "restart"]
  /\ ops' = ops + 1
  /\ UNCHANGED <<files, marker, rotation, proc>>

\* the process stops inside CsvLogger::log, after the i-th file-system step
\* of the call, and a new one constructs its logger over the directory
LogCrash(t, r) ==
  /\ ops < MaxCrashOps
  /\ \E tr \in {log_trace(World, t, r)} :
       \E i \in 1..(Len(tr) - 1) :
          /\ files' = tr[i].fs
          /\ marker' = tr[i].mk
          /\ last' = [NoLast EXCEPT !.op = "crash", !.table = t,
                                    !.created = (t \notin DOMAIN tables),
                                    !.recovered = cur_epoch(World, t).ret,
                                    !.pre = marker[t]]
  /\ tables' = EmptyMap
  /\ hist' = [t2 \in TableNames |-> EmptyMap]
  /\ ops' = ops + 1
  /\ UNCHANGED <<rotation, proc>>

NextCrash ==
  \/ \E t \in TableNames : ops < MaxCrashOps /\ Log(t, NextRecord)
  \/ Flush
  \/ Restart
  \/ \E t \in TableNames : LogCrash(t, NextRecord)

\* CsvLogger::new over an empty output directory, in behaviours with restarts
InitCrash ==
  /\ files = [t \in TableNames |-> EmptyMap]
  /\ marker = [t \in TableNames |-> Absent]
  /\ tables = EmptyMap
  /\ \E k \in 1..MaxCrashK, m \in 0..MaxCrashM :
       rotation = [max_records |-> k, max_epochs |-> m]
  /\ hist = [t \in TableNames |-> EmptyMap]
  /\ ops = 0
  /\ last = NoLast
  /\ proc = NoProc

\* log calls, flushes, restarts and processes that stop inside a log call
SpecCrash == InitCrash /\ [][NextCrash]_vars

\* every text of at most MaxText characters
MarkerTexts == UNION {[1..n -> Chars] : n \in 0..MaxText}

\* an output directory whose marker files hold anything, and no process yet
InitMarker ==
  /\ files = [t \in TableNames |-> EmptyMap]
  /\ \E t \in TableNames, f \in {Absent} \cup {Text(s) : s \in MarkerTexts} :
       marker = [x \in TableNames |-> IF x = t THEN f ELSE Absent]
  /\ tables = EmptyMap
  /\ rotation = [max_records |-> 1, max_epochs |-> 0]
  /\ hist = [t \in TableNames |-> EmptyMap]
  /\ ops = 0
  /\ last = NoLast
  /\ proc = NoProc

\* a call of write_epoch
Persist(t, epoch) ==
  /\ marker' = write_epoch(World, t, epoch)[3].mk
  /\ last' = [NoLast EXCEPT !.op = "persist", !.table = t, !.start = epoch,
                            !.pre = marker[t]]
  /\ UNCHANGED <<files, tables, rotation, hist, ops, proc>>

\* a call of cur_epoch by a process that has just started
Recover(t) ==
  /\ LET c == cur_epoch(World, t)
     IN /\ marker' = c.w.mk
        /\ last' = [NoLast EXCEPT !.op = "recover", !.table = t,
                                  !.recovered = c.ret, !.pre = marker[t]]
  /\ UNCHANGED <<files, tables, rotation, hist, ops, proc>>

NextMarker ==
  \/ \E t \in TableNames, epoch \in 0..MaxPersist : Persist(t, epoch)
  \/ \E t \in TableNames : Recover(t)

\* write_epoch and cur_epoch over arbitrary marker files
SpecMarker == InitMarker /\ [][NextMarker]_vars

\* CsvLogger::new by the callers of init, over an empty output directory
InitThreads ==
  /\ files = [t \in TableNames |-> EmptyMap]
  /\ marker = [t \in TableNames |-> Absent]
  /\ tables = EmptyMap
  /\ \E k \in 1..MaxThreadK : rotation = [max_records |-> k, max_epochs |-> 1]
  /\ hist = [t \in TableNames |-> EmptyMap]
  /\ ops = 0
  /\ last = NoLast
  /\ proc = NoProc

\* init, GLOBAL_LOG.lock().unwrap(): the caller gets the mutex, or panics on
\* a poisoned one (the guard inside the error is dropped by the unwinding)
InitLock(i) ==
  /\ proc.init[i] = "start"
  /\ lock_available(proc)
  /\ proc' = IF proc.poisoned
             THEN [proc EXCEPT !.init[i] = "panicked"]
             ELSE [proc EXCEPT !.init[i] = "locked", !.lock = i]
  /\ UNCHANGED <<files, marker, tables, rotation, hist, ops, last>>

\* init, the has_logger test: the panic unwinds the caller, which drops the
\* guard and so releases and poisons the mutex
InitCheck(i) ==
  /\ proc.init[i] = "locked"
  /\ proc' = IF init_rejects(proc)
             THEN [proc EXCEPT !.init[i] = "rejected", !.lock = "free",
                               !.poisoned = TRUE]
             ELSE [proc EXCEPT !.init[i] = "checked"]
  /\ UNCHANGED <<files, marker, tables, rotation, hist, ops, last>>

\* init, log.register(Box::new(logger))
InitRegister(i) ==
  /\ proc.init[i] = "checked"
  /\ proc' = [proc EXCEPT !.init[i] = "registered", !.logger = i]
  /\ UNCHANGED <<files, marker, tables, rotation, hist, ops, last>>

\* init, drop(log)
InitUnlock(i) ==
  /\ proc.init[i] = "registered"
  /\ proc' = [proc EXCEPT !.init[i] = "unlocked", !.lock = "free"]
  /\ UNCHANGED <<files, marker, tables, rotation, hist, ops, last>>

\* init, the spawn of the flush worker, which begins with its sleep
InitSpawn(i) ==
  /\ proc.init[i] = "unlocked"
  /\ proc' = [proc EXCEPT !.init[i] = "done", !.worker[i] = "sleep"]
  /\ UNCHANGED <<files, marker, tables, rotation, hist, ops, last>>

\* the flush worker after its sleep, GLOBAL_LOG.lock().unwrap(): the worker
\* gets the mutex, or panics on a poisoned one, which ends its thread
WorkerLock(i) ==
  /\ proc.worker[i] = "sleep"
  /\ lock_available(proc)
  /\ proc' = IF proc.poisoned
             THEN [proc EXCEPT !.worker[i] = "dead"]
             ELSE [proc EXCEPT !.worker[i] = "flush", !.lock = "worker"]
  /\ UNCHANGED <<files, marker, tables, rotation, hist, ops, last>>

\* the flush worker, log.flush() and the end of the loop body, where the
\* guard is dropped: Table::flush fails for the tables in failing, and the
\* panic of expect ends the worker's thread and poisons the mutex
WorkerFlush(i) ==
  /\ proc.worker[i] = "flush"
  /\ \E failing \in SUBSET (DOMAIN tables), order \in Orders(DOMAIN tables) :
       \E res \in {flush_order(World, order, failing, {})} :
         /\ files' = res.w.fs
         /\ marker' = res.w.mk
         /\ tables' = res.w.tb
         /\ proc' = [proc EXCEPT
                       !.worker[i] = IF res.panicked THEN "dead" ELSE "sleep",
                       !.lock = "free",
                       !.poisoned = res.panicked,
                       !.flushed = [done |-> TRUE, present |-> DOMAIN tables,
                                    failing |-> failing,
                                    attempted |-> res.attempted]]
  /\ UNCHANGED <<rotation, hist, ops, last>>

\* table_log::log! by the logging thread: it takes the mutex of GLOBAL_LOG,
\* through which alone the registered CsvLogger is reached, and enters
\* CsvLogger::log
AppBegin(t) ==
  /\ proc.app = "idle"
  /\ has_logger(proc)
  /\ ~proc.poisoned
  /\ lock_available(proc)
  /\ ops < MaxThreadOps
  /\ proc' = [proc EXCEPT !.app = "log", !.lock = "app",
                          !.pending = log_trace(World, t, NextRecord)]
  /\ ops' = ops + 1
  /\ UNCHANGED <<files, marker, tables, rotation, hist, last>>

\* the next step of the log call in progress; after the last one the call
\* returns and the guard is dropped
AppStep ==
  /\ proc.app = "log"
  /\ proc.pending # <<>>
  /\ \E w \in {Head(proc.pending)} :
       /\ files' = w.fs
       /\ marker' = w.mk
       /\ tables' = w.tb
  /\ proc' = IF Len(proc.pending) = 1
             THEN [proc EXCEPT !.app = "idle", !.lock = "free", !.pending = <<>>]
             ELSE [proc EXCEPT !.pending = Tail(proc.pending)]
  /\ UNCHANGED <<rotation, hist, ops, last>>

NextThreads ==
  \/ \E i \in Callers : InitLock(i)
  \/ \E i \in Callers : InitCheck(i)
  \/ \E i \in Callers : InitRegister(i)
  \/ \E i \in Callers : InitUnlock(i)
  \/ \E i \in Callers : InitSpawn(i)
  \/ \E i \in Callers : WorkerLock(i)
  \/ \E i \in Callers : WorkerFlush(i)
  \/ \E t \in TableNames : AppBegin(t)
  \/ AppStep

\* the callers of init, the flush workers and a logging thread of one
\* process
SpecThreads == InitThreads /\ [][NextThreads]_vars

(* --------------------- vocabulary of the properties -------------------- *)

RECURSIVE SumLen(_, _)
SumLen(f, es) ==
  IF es = {} THEN 0
  ELSE LET e == CHOOSE x \in es : TRUE
       IN Len(f[e]) + SumLen(f, es \ {e})

\* the number of records logged to table t so far
Logged(t) == SumLen(hist[t], DOMAIN hist[t])

\* the records logged to table t while epoch e was current, in order
LoggedIn(t, e) == IF e \in DOMAIN hist[t] THEN hist[t][e] ELSE <<>>

IsData(row) == ~row.header
\* the records of the data rows among rows, in order
DataRows(rows) ==
  LET d == SelectSeq(rows, IsData) IN [i \in 1..Len(d) |-> d[i].n]
HeaderRows(rows) == SelectSeq(rows, LAMBDA x : x.header)

\* the rows of the epoch-e file of table t: those on disk, followed by those
\* the open writer of that file still buffers
Rows(t, e) ==
  files[t][e] \o
    (IF t \in DOMAIN tables /\ tables[t].writer.path = e /\ tables[t].writer.linked
     THEN tables[t].writer.buf ELSE <<>>)

Held(t, e) == Len(DataRows(Rows(t, e)))

CeilDiv(a, b) == (a + b - 1) \div b

K == rotation.max_records
M == rotation.max_epochs

\* the last operation was a log call, to table t
AfterLog(t) == last.op = "log" /\ last.table = t

(* ------------------- one process, empty directory (Spec) --------------- *)

\* nothing has been pruned for a table at epoch e
NothingPruned(t) == tables[t].epoch < M

\* C1 as stated: after the n-th log call to a table (n >= 1, nothing
\* pruned) the table has ceil(n / (k+1)) epoch files, each holding at most
\* k+1 data rows, and the newest holds n mod (k+1) rows (k+1 when that is 0).
C1_Original ==
  \A t \in DOMAIN tables :
    (AfterLog(t) /\ NothingPruned(t)) =>
      LET n == Logged(t)
          newest == tables[t].epoch
      IN /\ Cardinality(DOMAIN files[t]) = CeilDiv(n, K + 1)
         /\ \A e \in DOMAIN files[t] : Held(t, e) <= K + 1
         /\ newest \in DOMAIN files[t]
         /\ Held(t, newest) = (IF n % (K + 1) = 0 THEN K + 1 ELSE n % (K + 1))

\* C1 amended: after the n-th log call to a table (n >= 1, nothing pruned)
\* the table has floor(n / k) + 1 epoch files, each holding at most k data
\* rows, every file but the newest holds exactly k, and the newest holds
\* n mod k data rows (none when k divides n).
C1_FileCount ==
  \A t \in DOMAIN tables :
    (AfterLog(t) /\ NothingPruned(t)) =>
      LET n == Logged(t)
          newest == tables[t].epoch
      IN /\ Cardinality(DOMAIN files[t]) = (n \div K) + 1
         /\ DOMAIN files[t] = 0..newest
         /\ \A e \in DOMAIN files[t] : Held(t, e) <= K
         /\ \A e \in 0..(newest - 1) : Held(t, e) = K
         /\ Held(t, newest) = n % K

\* C1 witness: four records to a table with max_records = 2 gave three
\* files, the newest of them empty, and nothing was pruned.
C1_Witness ==
  \E t \in DOMAIN tables :
    /\ AfterLog(t) /\ NothingPruned(t)
    /\ K = 2 /\ Logged(t) = 4
    /\ DOMAIN files[t] = {0, 1, 2}
    /\ Held(t, 1) = 2 /\ Held(t, 2) = 0

\* C2 as stated: after exactly k records to a new table nothing has rotated:
\* the table is at epoch 0, the k rows are in the epoch-0 file and the
\* epoch-1 file does not exist; the (k+1)-th log call is the one that rotates.
\* (Taken with max_epochs >= 2, as in Scenario A, so that retention plays
\* no part in it.)
C2_Original ==
  \A t \in DOMAIN tables :
    (AfterLog(t) /\ M >= 2) =>
      /\ Logged(t) = K =>
           /\ ~last.rotated
           /\ tables[t].epoch = 0
           /\ 0 \in DOMAIN files[t] /\ DataRows(Rows(t, 0)) = LoggedIn(t, 0)
           /\ 1 \notin DOMAIN files[t]
      /\ Logged(t) = K + 1 => (last.rotated /\ tables[t].epoch = 1)

\* C2 amended: the rotation to epoch 1 happens on the k-th log call (the
\* test is max_records <= records_written).  After fewer than k records the
\* table is at epoch 0 and no epoch-1 file exists; the k-th call rotates and
\* leaves the table at epoch 1 with records_written = 0; with
\* max_epochs >= 2 (epoch 0 still retained) the epoch-0 file then holds the
\* header and the k rows on disk and the epoch-1 file exists and is empty.
C2_RotatesOnKth ==
  \A t \in DOMAIN tables :
    AfterLog(t) =>
      /\ Logged(t) < K =>
           /\ ~last.rotated
           /\ tables[t].epoch = 0
           /\ tables[t].records_written = Logged(t)
           /\ 1 \notin DOMAIN files[t]
      /\ Logged(t) = K =>
           /\ last.rotated
           /\ tables[t].epoch = 1
           /\ tables[t].records_written = 0
           /\ M >= 2 =>
                /\ DOMAIN files[t] = {0, 1}
                /\ Len(files[t][0]) = K + 1 /\ files[t][0][1] = Header
                /\ DataRows(files[t][0]) = LoggedIn(t, 0)
                /\ Len(LoggedIn(t, 0)) = K
                /\ files[t][1] = <<>>

\* C2 witness: the second of two records with max_records = 2 rotated, and
\* both rows are on disk in the epoch-0 file.
C2_Witness ==
  \E t \in DOMAIN tables :
    /\ AfterLog(t) /\ last.rotated /\ ~last.created
    /\ K = 2 /\ M >= 2 /\ Logged(t) = 2
    /\ Len(files[t][0]) = 3
    /\ files[t][1] = <<>>

\* C3: with max_epochs = m >= 1, after the n-th record logged to a table
\* the current epoch is e = floor(n / k) and the log files present are
\* exactly the epochs i with max(0, e - m + 1) <= i <= e.
C3_EpochAndWindow ==
  \A t \in DOMAIN tables :
    M >= 1 =>
      LET e == Logged(t) \div K
      IN /\ tables[t].epoch = e
         /\ DOMAIN files[t] = {i \in 0..e : i >= e - M + 1}

\* C3 witness: a table whose epoch e - m file has been deleted while the
\* m newest files are present.
C3_Witness ==
  \E t \in DOMAIN tables :
    /\ AfterLog(t) /\ M = 2
    /\ tables[t].epoch = 3
    /\ DOMAIN files[t] = {2, 3}

\* C4: after a flush, every epoch file that exists holds exactly the
\* records logged while its epoch was current, once each and in order,
\* also when its writer was replaced with rows still buffered.
C4_RowsAfterFlush ==
  last.op = "flush" =>
    \A t \in TableNames : \A e \in DOMAIN files[t] :
      DataRows(files[t][e]) = LoggedIn(t, e)

\* C4 witness: after a flush, the file of an epoch whose writer was
\* replaced while it still buffered the header and two rows holds both rows.
C4_Witness ==
  /\ last.op = "flush" /\ last.rotated /\ last.dropped = 3
  /\ \E t \in DOMAIN tables :
       /\ last.table = t
       /\ tables[t].epoch - 1 \in DOMAIN files[t]
       /\ Len(DataRows(files[t][tables[t].epoch - 1])) = 2

\* C5: after a rotation that produces epoch e, no log file exists at epoch
\* e - max_epochs or earlier, and the files of epochs e - max_epochs + 1
\* through e (the non-negative ones) are all present.
C5_Retention ==
  \A t \in DOMAIN tables :
    (AfterLog(t) /\ last.rotated) =>
      LET e == tables[t].epoch
      IN /\ \A i \in DOMAIN files[t] : i > e - M
         /\ \A i \in 0..e : i >= e - M + 1 => i \in DOMAIN files[t]

\* C5 witness: a rotation produced epoch e >= max_epochs >= 1, so a file had
\* to be deleted, and the window below e is present.
C5_Witness ==
  \E t \in DOMAIN tables :
    /\ AfterLog(t) /\ last.rotated
    /\ M >= 1 /\ tables[t].epoch > M
    /\ tables[t].epoch - M + 1 \in DOMAIN files[t]
    /\ tables[t].epoch \in DOMAIN files[t]

\* C6: after a log call completes, the log file of the table's current
\* epoch exists and at most max_epochs + 1 log files exist for the table;
\* with max_epochs = 0 the current epoch's file is the only one.
C6_CurrentFileExists ==
  \A t \in DOMAIN tables :
    AfterLog(t) =>
      /\ tables[t].epoch \in DOMAIN files[t]
      /\ Cardinality(DOMAIN files[t]) <= M + 1
      /\ M = 0 => DOMAIN files[t] = {tables[t].epoch}

(* ------------------ restarts and stopped processes (SpecCrash) --------- *)

\* C7 as stated: whatever restarts and interrupted log calls came before,
\* once a table is running at epoch e no log file with an epoch number
\* below e - max_epochs remains on disk.  (Taken with max_epochs >= 1.)
C7_NoGapAcrossRestarts ==
  \A t \in DOMAIN tables :
    (AfterLog(t) /\ M >= 1) =>
      \A i \in DOMAIN files[t] : i >= tables[t].epoch - M

\* C8 as stated: the starting epoch of a table created by a log call is the
\* recovered marker value itself, and 0 when nothing is recovered.
C8_Original ==
  \A t \in DOMAIN tables :
    (AfterLog(t) /\ last.created) =>
      last.start = (IF last.recovered.some THEN last.recovered.val ELSE 0)

\* C8 amended: the starting epoch of a table created by a log call is the
\* recovered marker value plus one (the marker names the last epoch used),
\* and 0 when nothing is recovered.
C8_StartEpoch ==
  \A t \in DOMAIN tables :
    (AfterLog(t) /\ last.created) =>
      /\ last.start = (IF last.recovered.some THEN last.recovered.val + 1 ELSE 0)
      /\ last.start \in DOMAIN hist[t]

\* C8 witness: a table created over a marker that read 1 started at epoch 2.
C8_Witness ==
  \E t \in DOMAIN tables :
    /\ AfterLog(t) /\ last.created
    /\ last.pre = Text(<<"1">>)
    /\ last.recovered = Some(1)
    /\ last.start = 2

(* ---------------------- the marker file (SpecMarker) ------------------- *)

\* the text is an optional '+' followed by one or more decimal digits
DenotesNat(s) ==
  \E k \in 0..1 :
    /\ Len(s) > k
    /\ k = 1 => s[1] = "+"
    /\ \A i \in (k + 1)..Len(s) : s[i] \in {"0", "1", "2", "3", "4", "5", "6", "7", "8", "9"}

\* C9: after write_epoch(E), cur_epoch by a fresh process returns E and
\* leaves the marker alone; cur_epoch over an absent marker, or over a text
\* that denotes no non-negative integer, returns None, and in the second
\* case the marker file is gone afterwards.
C9_MarkerRoundTrip ==
  /\ last.op = "persist" =>
       /\ cur_epoch(World, last.table).ret = Some(last.start)
       /\ cur_epoch(World, last.table).w = World
  /\ (last.op = "recover" /\ ~last.pre.exists) =>
       (last.recovered = None /\ ~marker[last.table].exists)
  /\ (last.op = "recover" /\ last.pre.exists /\ ~DenotesNat(last.pre.text)) =>
       (last.recovered = None /\ ~marker[last.table].exists)

\* C9 witness: epoch 12 was persisted over a marker that held garbage and
\* reads back as the two characters "12".
C9_Witness ==
  /\ last.op = "persist" /\ last.start = 12
  /\ last.pre.exists /\ ~DenotesNat(last.pre.text)
  /\ marker[last.table] = Text(<<"1", "2">>)

\* C10 as stated: wherever a process stops inside a log call that found an
\* intact marker, the marker file exists afterwards and reads as a number,
\* never as absent, empty or partial.
C10_AtomicPersist ==
  (last.op = "crash" /\ last.pre.exists /\ parse(last.pre.text).some) =>
    /\ marker[last.table].exists
    /\ parse(marker[last.table].text).some

(* ----------------- flush, counters, headers and the frame -------------- *)

\* the epoch and records_written of every table of the map
RotationState == [t \in DOMAIN tables |->
                    [epoch |-> tables[t].epoch,
                     records_written |-> tables[t].records_written]]

\* the epochs that have a log file, for every table
LogFiles == [t \in TableNames |-> DOMAIN files[t]]

\* C13: a flush right after a flush changes nothing (the state a flush
\* leaves is a fixed point of flush), and every flush leaves every table's
\* epoch and records_written, the epoch markers and the set of existing log
\* files as they were.
C13_FlushIdempotent ==
  /\ [](last.op = "flush" => flush(World) = World)
  /\ [][last'.op = "flush" =>
          /\ RotationState' = RotationState
          /\ marker' = marker
          /\ LogFiles' = LogFiles]_vars

\* C13 witness: a flush has moved a header and two data rows from a
\* writer's buffer to its file.
C13_Witness ==
  /\ last.op = "flush"
  /\ \E t \in DOMAIN tables :
       /\ tables[t].records_written = 2
       /\ tables[t].writer.buf = <<>>
       /\ tables[t].epoch \in DOMAIN files[t]
       /\ Len(files[t][tables[t].epoch]) = 3

\* C15: records_written is the number of records appended through the open
\* writer, that is, logged during the current epoch; a step either leaves a
\* table's epoch and records_written alone, or is a log call to that table
\* that adds 1 to records_written at the same epoch, or one that rotates:
\* epoch + 1 and records_written = 0.
C15_RecordsWritten ==
  /\ [](\A t \in DOMAIN tables :
          /\ tables[t].records_written = Len(LoggedIn(t, tables[t].epoch))
          /\ (tables[t].writer.linked /\ tables[t].epoch \in DOMAIN files[t]) =>
               /\ tables[t].writer.path = tables[t].epoch
               /\ Held(t, tables[t].epoch) = tables[t].records_written)
  /\ [][\A t \in (DOMAIN tables) \cap (DOMAIN tables') :
          \/ /\ tables'[t].epoch = tables[t].epoch
             /\ tables'[t].records_written = tables[t].records_written
          \/ /\ last'.op = "log" /\ last'.table = t /\ ~last'.rotated
             /\ tables'[t].epoch = tables[t].epoch
             /\ tables'[t].records_written = tables[t].records_written + 1
          \/ /\ last'.op = "log" /\ last'.table = t /\ last'.rotated
             /\ tables'[t].epoch = tables[t].epoch + 1
             /\ tables'[t].records_written = 0]_vars

\* C15 witness: a table past its first rotation with two records appended
\* through its open writer.
C15_Witness ==
  \E t \in DOMAIN tables :
    /\ AfterLog(t) /\ ~last.rotated
    /\ tables[t].epoch >= 1
    /\ tables[t].records_written = 2
    /\ tables[t].epoch \in DOMAIN files[t]
    /\ Held(t, tables[t].epoch) = 2

\* C16 as stated, taken after completed calls only: every log file that
\* exists holds exactly one header row (counting what its open writer still
\* buffers), also a file just created by a rotation.
C16_Original ==
  last.op \in {"log", "flush"} =>
    \A t \in TableNames : \A e \in DOMAIN files[t] :
      Len(HeaderRows(Rows(t, e))) = 1

\* C16 amended: every log file that exists holds at most one header row,
\* and it is its first row; a file to which a record has been appended
\* holds exactly one, and a file that holds no row yet (just created by a
\* rotation, or re-created at startup over a stale file) holds none.
C16_HeaderOnce ==
  \A t \in TableNames : \A e \in DOMAIN files[t] :
    /\ Len(HeaderRows(Rows(t, e))) = (IF Rows(t, e) = <<>> THEN 0 ELSE 1)
    /\ Rows(t, e) # <<>> => (Rows(t, e)[1] = Header /\ Len(Rows(t, e)) >= 2)
    /\ Len(HeaderRows(files[t][e])) = (IF files[t][e] = <<>> THEN 0 ELSE 1)

\* C16 witness: a file with one header and two data rows next to the empty
\* file the rotation has just created.
C16_Witness ==
  \E t \in DOMAIN tables :
    /\ AfterLog(t) /\ last.rotated
    /\ tables[t].epoch >= 1
    /\ tables[t].epoch - 1 \in DOMAIN files[t]
    /\ Len(HeaderRows(files[t][tables[t].epoch - 1])) = 1
    /\ Len(DataRows(files[t][tables[t].epoch - 1])) = 2
    /\ tables[t].epoch \in DOMAIN files[t]
    /\ files[t][tables[t].epoch] = <<>>

\* C20: a log call for one table leaves the in-memory table, the marker
\* file and the log files of every other table as they were.
C20_TablesIndependent ==
  [][last'.op = "log" =>
       \A t \in TableNames \ {last'.table} :
         /\ files'[t] = files[t]
         /\ marker'[t] = marker[t]
         /\ (t \in DOMAIN tables) = (t \in DOMAIN tables')
         /\ t \in DOMAIN tables => tables'[t] = tables[t]]_vars

\* C20 witness: a log call to one table rotated and pruned an epoch whose
\* number another table still has a file for.
C20_Witness ==
  \E t \in DOMAIN tables : \E u \in (DOMAIN tables) \ {t} :
    /\ AfterLog(t) /\ last.rotated
    /\ tables[t].epoch >= M /\ M >= 1
    /\ tables[t].epoch - M \notin DOMAIN files[t]
    /\ tables[t].epoch - M \in DOMAIN files[u]

(* ------------------- the marker across restarts (SpecCrash) ------------ *)

\* C14 as stated: after every completed log call the marker of the table
\* is present and holds the table's in-memory epoch, and that epoch is the
\* highest for which a log file of the table was ever created, so no log
\* file of a higher epoch exists; a log call that neither creates the table
\* nor rotates leaves the marker as it was.  (Taken with max_epochs >= 1.)
C14_MarkerIsHighestEpoch ==
  \A t \in DOMAIN tables :
    (AfterLog(t) /\ M >= 1) =>
      /\ marker[t] = Text(to_string(tables[t].epoch))
      /\ \A e \in DOMAIN files[t] : e <= tables[t].epoch
      /\ (~last.created /\ ~last.rotated) => marker[t] = last.pre

\* C19 as stated: a log call that creates a table over a marker that is
\* present and parses starts the table at an epoch above every epoch whose
\* file holds a data row, so the file it removes and re-creates holds none.
C19_NoEpochReuse ==
  [][(last'.op = "log" /\ last'.created /\ last'.recovered.some) =>
       \A e \in DOMAIN files[last'.table] :
         DataRows(files[last'.table][e]) # <<>> => last'.start > e]_vars

(* --------------------- init and the threads (SpecThreads) -------------- *)

\* the callers of init that have registered their logger
Registered == {i \in Callers : proc.init[i] \in {"registered", "unlocked", "done"}}

\* the threads inside a section they entered by locking GLOBAL_LOG
InSection ==
  {<<"init", i>> : i \in {j \in Callers : proc.init[j] \in {"locked", "checked", "registered"}}}
    \cup {<<"worker", i>> : i \in {j \in Callers : proc.worker[j] = "flush"}}
    \cup (IF proc.app = "log" THEN {<<"app", "log">>} ELSE {})

\* C11: at most one caller of init ever registers a logger and at most one
\* flush worker is started; an init that finds a logger registered panics,
\* has registered nothing and started no worker, and the logger that was
\* registered stays registered.
C11_SingleLogger ==
  /\ [](/\ Cardinality(Registered) <= 1
        /\ Cardinality({i \in Callers : proc.worker[i] # "none"}) <= 1
        /\ \A i \in Callers :
             proc.init[i] = "rejected" =>
               /\ has_logger(proc) /\ proc.logger # i
               /\ proc.worker[i] = "none")
  /\ [][has_logger(proc) => proc'.logger = proc.logger]_vars

\* C11 witness: one caller has registered and spawned its worker, the
\* other one was rejected.
C11_Witness ==
  \E i \in Callers : \E j \in Callers \ {i} :
    /\ proc.init[i] = "done" /\ proc.logger = i /\ proc.worker[i] # "none"
    /\ proc.init[j] = "rejected"

\* C12 as stated: a flush attempts Table::flush on every table of the map,
\* also when the flush of some table fails.
C12_FlushAttemptsAll ==
  proc.flushed.done => proc.flushed.attempted = proc.flushed.present

\* C17: at most one thread is inside a section guarded by the lock of
\* GLOBAL_LOG, and the lock names it: while the worker is in flush no log
\* call is in progress (none is between its append and the end of its
\* rotation), and while a log call is in progress no worker is in flush.
C17_FlushExcludesLog ==
  /\ Cardinality(InSection) <= 1
  /\ (proc.lock = "free") = (InSection = {})
  /\ \A i \in Callers :
       proc.worker[i] = "flush" => (proc.app = "idle" /\ proc.pending = <<>>)

\* C17 witness: the worker is in flush, holding the lock, and a writer has
\* rows buffered for it to write: a log call has completed before.
C17_Witness ==
  \E i \in Callers :
    /\ proc.worker[i] = "flush" /\ proc.lock = "worker"
    /\ proc.app = "idle"
    /\ \E t \in DOMAIN tables : tables[t].writer.buf # <<>>

\* C18 as stated: once started, the flush worker never ends: no step takes
\* a worker that sleeps or flushes to a worker that has ended.
C18_WorkerNeverEnds ==
  [][\A i \in Callers :
       proc.worker[i] \in {"sleep", "flush"} =>
         proc'.worker[i] \in {"sleep", "flush"}]_vars

====
